---- MODULE Spec2Model ----
(***************************************************************************)
(* Model of script.py: the crawl mode of main() and the bounded            *)
(* breadth-first traversal process_network(), together with the three      *)
(* Neo4j write transactions store_user, store_group, create_relationship   *)
(* and the VK API as the environment.                                      *)
(***************************************************************************)
EXTENDS Integers, Sequences, FiniteSets, TLC

\* ------------------------------------------------------------------ bounds
MaxId        == 3   \* user ids are drawn from 1..MaxId
MaxFollowers == 2   \* longest follower list the API answers with
MaxSubs      == 1   \* longest subscription list the API answers with
MaxDepthArg  == 2   \* --max_depth ranges over 0..MaxDepthArg
MaxNodesArg  == 4   \* --max_nodes ranges over 0..MaxNodesArg
MaxRuns      == 2   \* invocations of main() against the same database

\* User ids and group ids come from one numeric space: some group ids are
\* also user ids, and one group id is no user's id.
Ids      == 1..MaxId
GroupIds == MaxId..(MaxId + 1)
SubTypes == {"page", "profile"}
Labels   == {"User", "Group"}
Keys     == ({"User"} \X Ids) \cup ({"Group"} \X GroupIds)

\* All sequences over S of length at most n.
RECURSIVE SeqsUpTo(_, _)
SeqsUpTo(S, n) ==
    IF n = 0 THEN {<<>>}
    ELSE LET shorter == SeqsUpTo(S, n - 1)
         IN  shorter \cup {Append(s, x) : s \in shorter, x \in S}

\* A follower list names no user twice.
Distinct(s) == \A i \in 1..Len(s), j \in 1..Len(s) : i # j => s[i] # s[j]

\* In ascending order (and so without repetition).
Ascending(s) == \A i \in 1..Len(s), j \in 1..Len(s) : i < j => s[i] < s[j]

\* ------------------------------------------------------- the VK API answers
\* users.getFollowers followed by users.get on the returned ids
FollowerAnswers ==
    {[err |-> "ids", items |-> <<>>], [err |-> "details", items |-> <<>>]}
    \cup {[err |-> "none", items |-> s] :
              s \in {t \in SeqsUpTo(Ids, MaxFollowers) : Distinct(t)}}

StableFollowerAnswers == {a \in FollowerAnswers : Ascending(a.items)}

\* users.getSubscriptions (extended) followed by groups.getById
SubItems == [id : GroupIds, type : SubTypes]
SubAnswers ==
    {[err |-> "subs", items |-> <<>>], [err |-> "groups", items |-> <<>>]}
    \cup {[err |-> "none", items |-> s] : s \in SeqsUpTo(SubItems, MaxSubs)}

StableSubAnswers ==
    {a \in SubAnswers : \A i \in 1..Len(a.items) : a.items[i].type = "page"}

VARIABLES
    vk,              \* the VK API: the answers it is held to
    user_id,         \* main: the seed id
    max_depth,       \* args.max_depth
    max_nodes,       \* args.max_nodes
    pc,              \* position of the program
    queue,           \* process_network: the frontier
    processed,       \* process_network: the visited set
    node_count,      \* process_network: the processed-node counter
    uid, level,      \* process_network: the popped item
    followers_info,  \* the follower records still to iterate (their ids)
    fid,             \* the follower being linked
    groups_info,     \* the group records still to iterate (their ids)
    gid,             \* the group being linked
    subscriptions,   \* the subscription items fetched for uid, while its groups are iterated
    nodes,           \* Neo4j: per (label, id), the attributes of each node entity
    edges,           \* Neo4j: relationships <<from key, type, to key>>
    run,             \* which invocation of main() this is
    calls,           \* history: the per-node API fetches of this run, in order
    wrote,           \* history: a write transaction ran in this run
    seedFailed,      \* history: a detail fetch of the seed failed in this run
    unmatched,       \* history: a create_relationship found an endpoint missing
    store1,          \* history: the store as the previous run left it
    rx,              \* observation: the API fetch the last step made, if any
    tx               \* observation: the write transaction the last step ran, if any

vars == <<vk, user_id, max_depth, max_nodes, pc, queue, processed, node_count,
          uid, level, followers_info, fid, groups_info, gid, nodes, edges,
          run, calls, wrote, seedFailed, unmatched, store1, subscriptions,
          rx, tx>>

args   == <<user_id, max_depth, max_nodes>>
locals == <<queue, processed, node_count, uid, level, followers_info, fid,
            groups_info, gid, subscriptions>>
store  == <<nodes, edges>>

\* ------------------------------------------------------------ Graph store
EmptyNodes == [k \in Keys |-> <<>>]

Exists(ns, k) == Len(ns[k]) > 0

\* CREATE in place of MERGE
MergeNodeCreates(ns, label, id, name) ==
    [ns EXCEPT ![<<label, id>>] = Append(@, name)]

\* MERGE (n:label {id: id}) SET n.attrs = name
MergeNode(ns, label, id, name) ==
    LET k == <<label, id>>
    IN  IF Exists(ns, k)
        THEN [ns EXCEPT ![k] = [i \in 1..Len(ns[k]) |-> name]]
        ELSE [ns EXCEPT ![k] = <<name>>]

store_user(ns, user_data) == MergeNode(ns, "User", user_data.id, user_data.name)

store_group(ns, group_data) == MergeNode(ns, "Group", group_data.id, group_data.name)

\* MATCH (a {id: from_id}) MATCH (b {id: to_id}): any label
Match(ns, id) == {k \in Keys : k[2] = id /\ Exists(ns, k)}

create_relationship(ns, es, from_id, to_id, relationship_type) ==
    es \cup {<<a, relationship_type, b>> : a \in Match(ns, from_id), b \in Match(ns, to_id)}

\* ------------------------------------------------------------ VK API
\* vk holds, per call, the answer a stable API has given and will give again
\* (<<>>: not asked yet). A live API is held to nothing: the world may change
\* between two calls.
VkInit(stable) ==
    [stable    |-> stable,
     info      |-> [u \in Ids |-> <<>>],
     followers |-> [u \in Ids |-> <<>>],
     subs      |-> [u \in Ids |-> <<>>]]

Pin(field, id, ans) ==
    IF vk.stable THEN [vk EXCEPT ![field][id] = <<ans>>] ELSE vk

\* The answers the API may give now.
Given(field, id, all) ==
    IF vk[field][id] = <<>> THEN all ELSE {vk[field][id][1]}

InfoAnswers(id) == Given("info", id, BOOLEAN)

FollowersAnswers(id) ==
    Given("followers", id, IF vk.stable THEN StableFollowerAnswers ELSE FollowerAnswers)

SubsAnswers(id) ==
    Given("subs", id, IF vk.stable THEN StableSubAnswers ELSE SubAnswers)

\* The attributes a detail record carries (name, screen_name, sex, home_town
\* taken as one value): fixed in a stable world; in a live world every
\* profile is edited between two invocations of the script.
Profile == IF vk.stable THEN 1 ELSE run

Call(op) == [op |-> op, uid |-> uid, level |-> level]

\* What a step did to the outside: a fetch and its outcome, a write transaction.
NoRx == [op |-> "none", id |-> 0, ok |-> TRUE]

Rx(op, id, ok) == [op |-> op, id |-> id, ok |-> ok]

NoTx == [op |-> "none", a |-> 0, b |-> 0]

Tx(op, a, b) == [op |-> op, a |-> a, b |-> b]

\* ------------------------------------------------------------ Init
\* The model treats all user ids alike, so one seed stands for every seed.
Seeds == {1}

Start(stable) ==
    /\ vk = VkInit(stable)
    /\ user_id \in Seeds
    /\ max_depth \in 0..MaxDepthArg
    /\ max_nodes \in 0..MaxNodesArg
    /\ pc = "main"
    /\ queue = <<>>
    /\ processed = {}
    /\ node_count = 0
    /\ uid = 0
    /\ level = 0
    /\ followers_info = <<>>
    /\ fid = 0
    /\ groups_info = <<>>
    /\ gid = 0
    /\ nodes = EmptyNodes
    /\ edges = {}
    /\ run = 1
    /\ calls = <<>>
    /\ wrote = FALSE
    /\ seedFailed = FALSE
    /\ unmatched = FALSE
    /\ store1 = <<EmptyNodes, {}>>
    /\ subscriptions = <<>>
    /\ rx = NoRx
    /\ tx = NoTx

\* ------------------------------------------------------------ main
\* main: the lookup of the first user fails
MainLookupFail ==
    /\ pc = "main"
    /\ FALSE \in InfoAnswers(user_id)
    /\ vk' = Pin("info", user_id, FALSE)
    /\ seedFailed' = TRUE
    /\ pc' = "done"
    /\ rx' = Rx("info", user_id, FALSE)
    /\ tx' = NoTx
    /\ UNCHANGED <<args, locals, store, run, calls, wrote, unmatched, store1>>

\* main: the lookup succeeds, process_network starts with its fresh locals
MainLookupOk ==
    /\ pc = "main"
    /\ TRUE \in InfoAnswers(user_id)
    /\ vk' = Pin("info", user_id, TRUE)
    /\ queue' = <<[id |-> user_id, level |-> 0]>>
    /\ processed' = {}
    /\ node_count' = 0
    /\ pc' = "pop"
    /\ rx' = Rx("info", user_id, TRUE)
    /\ tx' = NoTx
    /\ UNCHANGED <<subscriptions, args, uid, level, followers_info, fid, groups_info, gid,
                   store, run, calls, wrote, seedFailed, unmatched, store1>>

\* ------------------------------------------------------------ process_network
\* queue.pop(0): what is left of the frontier
PopKeepsHead(q) == q

Pop(q) == Tail(q)

\* uid in processed or level > max_depth
SkippableIgnoringVisited(h) == h.level > max_depth

SkippableIgnoringDepth(h) == h.id \in processed

SkippableAtMaxDepth(h) == h.id \in processed \/ h.level >= max_depth

Skippable(h) == h.id \in processed \/ h.level > max_depth

\* node_count > max_nodes
OverBudgetOffByOne(n) == n > max_nodes + 1

OverBudget(n) == n > max_nodes

\* queue.append((fid, level + 1))
EnqueueFront(q, id, lvl) == <<[id |-> id, level |-> lvl + 1]>> \o q

EnqueueSameLevel(q, id, lvl) == Append(q, [id |-> id, level |-> lvl])

Enqueue(q, id, lvl) == Append(q, [id |-> id, level |-> lvl + 1])

\* while queue: false
LoopExit ==
    /\ pc = "pop"
    /\ queue = <<>>
    /\ pc' = "done"
    /\ rx' = NoRx
    /\ tx' = NoTx
    /\ UNCHANGED <<vk, args, locals, store, run, calls, wrote, seedFailed,
                   unmatched, store1>>

\* pop; already processed or too deep: continue
PopSkip ==
    /\ pc = "pop"
    /\ queue # <<>>
    /\ LET h == Head(queue)
       IN  /\ Skippable(h)
           /\ uid' = h.id
           /\ level' = h.level
    /\ queue' = Pop(queue)
    /\ rx' = NoRx
    /\ tx' = NoTx
    /\ UNCHANGED <<subscriptions, vk, args, pc, processed, node_count, followers_info, fid,
                   groups_info, gid, store, run, calls, wrote, seedFailed,
                   unmatched, store1>>

\* PopStop with the over-budget item skipped and the loop going on.
PopStopSkips ==
    /\ pc = "pop"
    /\ queue # <<>>
    /\ LET h == Head(queue)
       IN  /\ ~Skippable(h)
           /\ uid' = h.id
           /\ level' = h.level
           /\ processed' = processed \cup {h.id}
    /\ queue' = Pop(queue)
    /\ node_count' = node_count + 1
    /\ OverBudget(node_count')
    /\ pc' = "pop"
    /\ rx' = NoRx
    /\ tx' = NoTx
    /\ UNCHANGED <<subscriptions, vk, args, followers_info, fid, groups_info, gid, store, run,
                   calls, wrote, seedFailed, unmatched, store1>>

\* pop; mark processed; count; over budget: break
PopStop ==
    /\ pc = "pop"
    /\ queue # <<>>
    /\ LET h == Head(queue)
       IN  /\ ~Skippable(h)
           /\ uid' = h.id
           /\ level' = h.level
           /\ processed' = processed \cup {h.id}
    /\ queue' = Pop(queue)
    /\ node_count' = node_count + 1
    /\ OverBudget(node_count')
    /\ pc' = "done"
    /\ rx' = NoRx
    /\ tx' = NoTx
    /\ UNCHANGED <<subscriptions, vk, args, followers_info, fid, groups_info, gid, store, run,
                   calls, wrote, seedFailed, unmatched, store1>>

\* pop; mark processed; count; within budget: go on to the detail fetch
PopExpand ==
    /\ pc = "pop"
    /\ queue # <<>>
    /\ LET h == Head(queue)
       IN  /\ ~Skippable(h)
           /\ uid' = h.id
           /\ level' = h.level
           /\ processed' = processed \cup {h.id}
    /\ queue' = Pop(queue)
    /\ node_count' = node_count + 1
    /\ ~OverBudget(node_count')
    /\ pc' = "info"
    /\ rx' = NoRx
    /\ tx' = NoTx
    /\ UNCHANGED <<subscriptions, vk, args, followers_info, fid, groups_info, gid, store, run,
                   calls, wrote, seedFailed, unmatched, store1>>

\* fetch_user_info fails, and the loop body goes on regardless
FetchInfoFailGoesOn ==
    /\ pc = "info"
    /\ FALSE \in InfoAnswers(uid)
    /\ vk' = Pin("info", uid, FALSE)
    /\ calls' = Append(calls, Call("info_fail"))
    /\ seedFailed' = (seedFailed \/ uid = user_id)
    /\ pc' = "followers"
    /\ rx' = Rx("info", uid, FALSE)
    /\ tx' = NoTx
    /\ UNCHANGED <<args, locals, store, run, wrote, unmatched, store1>>

\* FetchInfoFail with a bare node written for the id whose details are missing.
FetchInfoFailStoresStub ==
    /\ pc = "info"
    /\ FALSE \in InfoAnswers(uid)
    /\ vk' = Pin("info", uid, FALSE)
    /\ nodes' = store_user(nodes, [id |-> uid, name |-> Profile])
    /\ calls' = Append(calls, Call("info_fail"))
    /\ seedFailed' = (seedFailed \/ uid = user_id)
    /\ wrote' = TRUE
    /\ pc' = "pop"
    /\ rx' = Rx("info", uid, FALSE)
    /\ tx' = Tx("store_user", uid, 0)
    /\ UNCHANGED <<args, locals, edges, run, unmatched, store1>>

\* FetchInfoFail with the failed attempt given back to the budget.
FetchInfoFailRefunds ==
    /\ pc = "info"
    /\ FALSE \in InfoAnswers(uid)
    /\ vk' = Pin("info", uid, FALSE)
    /\ calls' = Append(calls, Call("info_fail"))
    /\ seedFailed' = (seedFailed \/ uid = user_id)
    /\ node_count' = node_count - 1
    /\ pc' = "pop"
    /\ rx' = Rx("info", uid, FALSE)
    /\ tx' = NoTx
    /\ UNCHANGED <<args, queue, processed, uid, level, followers_info, fid,
                   groups_info, gid, subscriptions, store, run, wrote,
                   unmatched, store1>>

\* FetchInfoFail with a failed detail fetch ending the traversal.
FetchInfoFailAborts ==
    /\ pc = "info"
    /\ FALSE \in InfoAnswers(uid)
    /\ vk' = Pin("info", uid, FALSE)
    /\ calls' = Append(calls, Call("info_fail"))
    /\ seedFailed' = (seedFailed \/ uid = user_id)
    /\ pc' = "done"
    /\ rx' = Rx("info", uid, FALSE)
    /\ tx' = NoTx
    /\ UNCHANGED <<args, locals, store, run, wrote, unmatched, store1>>

\* fetch_user_info fails: continue
FetchInfoFail ==
    /\ pc = "info"
    /\ FALSE \in InfoAnswers(uid)
    /\ vk' = Pin("info", uid, FALSE)
    /\ calls' = Append(calls, Call("info_fail"))
    /\ seedFailed' = (seedFailed \/ uid = user_id)
    /\ pc' = "pop"
    /\ rx' = Rx("info", uid, FALSE)
    /\ tx' = NoTx
    /\ UNCHANGED <<args, locals, store, run, wrote, unmatched, store1>>

\* fetch_user_info succeeds; write_transaction(store_user, user_details)
FetchInfoOk ==
    /\ pc = "info"
    /\ TRUE \in InfoAnswers(uid)
    /\ vk' = Pin("info", uid, TRUE)
    /\ nodes' = store_user(nodes, [id |-> uid, name |-> Profile])
    /\ calls' = Append(calls, Call("info_ok"))
    /\ wrote' = TRUE
    /\ pc' = "followers"
    /\ rx' = Rx("info", uid, TRUE)
    /\ tx' = Tx("store_user", uid, 0)
    /\ UNCHANGED <<args, locals, edges, run, seedFailed, unmatched, store1>>

\* fetch_followers or fetch_followers_details fails: no follower is iterated
FetchFollowersFail ==
    /\ pc = "followers"
    /\ \E ans \in FollowersAnswers(uid) :
          /\ ans.err # "none"
          /\ vk' = Pin("followers", uid, ans)
    /\ followers_info' = <<>>
    /\ calls' = Append(calls, Call("followers"))
    /\ pc' = "floop"
    /\ rx' = Rx("followers", uid, FALSE)
    /\ tx' = NoTx
    /\ UNCHANGED <<subscriptions, args, queue, processed, node_count, uid, level, fid,
                   groups_info, gid, store, run, wrote, seedFailed, unmatched,
                   store1>>

\* fetch_followers and fetch_followers_details succeed
FetchFollowersOk ==
    /\ pc = "followers"
    /\ \E ans \in FollowersAnswers(uid) :
          /\ ans.err = "none"
          /\ vk' = Pin("followers", uid, ans)
          /\ followers_info' = ans.items
    /\ calls' = Append(calls, Call("followers"))
    /\ pc' = "floop"
    /\ rx' = Rx("followers", uid, TRUE)
    /\ tx' = NoTx
    /\ UNCHANGED <<subscriptions, args, queue, processed, node_count, uid, level, fid,
                   groups_info, gid, store, run, wrote, seedFailed, unmatched,
                   store1>>

\* FollowerSkip with the edge of a visited follower asserted all the same.
FollowerSkipLinks ==
    /\ pc = "floop"
    /\ followers_info # <<>>
    /\ Head(followers_info) \in processed
    /\ edges' = create_relationship(nodes, edges, Head(followers_info), uid, "FOLLOWS")
    /\ followers_info' = Tail(followers_info)
    /\ wrote' = TRUE
    /\ rx' = NoRx
    /\ tx' = Tx("FOLLOWS", Head(followers_info), uid)
    /\ UNCHANGED <<subscriptions, vk, args, pc, queue, processed, node_count, uid, level, fid,
                   groups_info, gid, nodes, run, calls, seedFailed,
                   unmatched, store1>>

\* for follower in followers_info: fid in processed
FollowerSkip ==
    /\ pc = "floop"
    /\ followers_info # <<>>
    /\ Head(followers_info) \in processed
    /\ followers_info' = Tail(followers_info)
    /\ rx' = NoRx
    /\ tx' = NoTx
    /\ UNCHANGED <<subscriptions, vk, args, pc, queue, processed, node_count, uid, level, fid,
                   groups_info, gid, store, run, calls, wrote, seedFailed,
                   unmatched, store1>>

\* fid not in processed, and the follower is linked without being stored
FollowerStoreNoUpsert ==
    /\ pc = "floop"
    /\ followers_info # <<>>
    /\ Head(followers_info) \notin processed
    /\ fid' = Head(followers_info)
    /\ pc' = "frel"
    /\ rx' = NoRx
    /\ tx' = NoTx
    /\ UNCHANGED <<subscriptions, vk, args, queue, processed, node_count, uid, level,
                   followers_info, groups_info, gid, store, run, calls, wrote,
                   seedFailed, unmatched, store1>>

\* FollowerStore without the test that the follower is not visited.
FollowerStoreVisitedToo ==
    /\ pc = "floop"
    /\ followers_info # <<>>
    /\ fid' = Head(followers_info)
    /\ nodes' = store_user(nodes, [id |-> fid', name |-> Profile])
    /\ wrote' = TRUE
    /\ pc' = "frel"
    /\ rx' = NoRx
    /\ tx' = Tx("store_user", fid', 0)
    /\ UNCHANGED <<subscriptions, vk, args, queue, processed, node_count, uid, level,
                   followers_info, groups_info, gid, edges, run, calls,
                   seedFailed, unmatched, store1>>

\* fid not in processed: write_transaction(store_user, follower)
FollowerStore ==
    /\ pc = "floop"
    /\ followers_info # <<>>
    /\ Head(followers_info) \notin processed
    /\ fid' = Head(followers_info)
    /\ nodes' = store_user(nodes, [id |-> fid', name |-> Profile])
    /\ wrote' = TRUE
    /\ pc' = "frel"
    /\ rx' = NoRx
    /\ tx' = Tx("store_user", fid', 0)
    /\ UNCHANGED <<subscriptions, vk, args, queue, processed, node_count, uid, level,
                   followers_info, groups_info, gid, edges, run, calls,
                   seedFailed, unmatched, store1>>

\* write_transaction(create_relationship, fid, uid, "FOLLOWS"); queue.append
FollowerLink ==
    /\ pc = "frel"
    /\ edges' = create_relationship(nodes, edges, fid, uid, "FOLLOWS")
    /\ unmatched' = (unmatched \/ Match(nodes, fid) = {} \/ Match(nodes, uid) = {})
    /\ queue' = Enqueue(queue, fid, level)
    /\ followers_info' = Tail(followers_info)
    /\ wrote' = TRUE
    /\ pc' = "floop"
    /\ rx' = NoRx
    /\ tx' = Tx("FOLLOWS", fid, uid)
    /\ UNCHANGED <<subscriptions, vk, args, processed, node_count, uid, level, fid,
                   groups_info, gid, nodes, run, calls, seedFailed, store1>>

\* PageIds with the type of an item not looked at.
PageIdsOfAnyType(items) == [i \in 1..Len(items) |-> items[i].id]

\* The page-typed entries of a subscription list, in order.
RECURSIVE PageIds(_)
PageIds(items) ==
    IF items = <<>> THEN <<>>
    ELSE IF Head(items).type = "page"
         THEN <<Head(items).id>> \o PageIds(Tail(items))
         ELSE PageIds(Tail(items))

\* fetch_subscriptions or fetch_group_details fails: no group is iterated
FetchSubsFail ==
    /\ pc = "floop"
    /\ followers_info = <<>>
    /\ \E ans \in SubsAnswers(uid) :
          /\ ans.err # "none"
          /\ vk' = Pin("subs", uid, ans)
    /\ groups_info' = <<>>
    /\ calls' = Append(calls, Call("subs"))
    /\ pc' = "gloop"
    /\ rx' = Rx("subs", uid, FALSE)
    /\ tx' = NoTx
    /\ subscriptions' = <<>>
    /\ UNCHANGED <<args, queue, processed, node_count, uid, level,
                   followers_info, fid, gid, store, run, wrote, seedFailed,
                   unmatched, store1>>

\* fetch_subscriptions succeeds; the page ids are resolved by fetch_group_details
FetchSubsOk ==
    /\ pc = "floop"
    /\ followers_info = <<>>
    /\ \E ans \in SubsAnswers(uid) :
          /\ ans.err = "none"
          /\ vk' = Pin("subs", uid, ans)
          /\ subscriptions' = ans.items
          /\ groups_info' = PageIds(ans.items)
    /\ calls' = Append(calls, Call("subs"))
    /\ pc' = "gloop"
    /\ rx' = Rx("subs", uid, TRUE)
    /\ tx' = NoTx
    /\ UNCHANGED <<args, queue, processed, node_count, uid, level,
                   followers_info, fid, gid, store, run, wrote, seedFailed,
                   unmatched, store1>>

\* for group in groups_info: gid in processed
GroupSkip ==
    /\ pc = "gloop"
    /\ groups_info # <<>>
    /\ Head(groups_info) \in processed
    /\ groups_info' = Tail(groups_info)
    /\ rx' = NoRx
    /\ tx' = NoTx
    /\ UNCHANGED <<subscriptions, vk, args, pc, queue, processed, node_count, uid, level,
                   followers_info, fid, gid, store, run, calls, wrote,
                   seedFailed, unmatched, store1>>

\* gid not in processed: write_transaction(store_group, group)
GroupStore ==
    /\ pc = "gloop"
    /\ groups_info # <<>>
    /\ Head(groups_info) \notin processed
    /\ gid' = Head(groups_info)
    /\ nodes' = store_group(nodes, [id |-> gid', name |-> Profile])
    /\ wrote' = TRUE
    /\ pc' = "grel"
    /\ rx' = NoRx
    /\ tx' = Tx("store_group", gid', 0)
    /\ UNCHANGED <<subscriptions, vk, args, queue, processed, node_count, uid, level,
                   followers_info, fid, groups_info, edges, run, calls,
                   seedFailed, unmatched, store1>>

\* write_transaction(create_relationship, uid, gid, "SUBSCRIBED_TO")
GroupLink ==
    /\ pc = "grel"
    /\ edges' = create_relationship(nodes, edges, uid, gid, "SUBSCRIBED_TO")
    /\ unmatched' = (unmatched \/ Match(nodes, uid) = {} \/ Match(nodes, gid) = {})
    /\ groups_info' = Tail(groups_info)
    /\ wrote' = TRUE
    /\ pc' = "gloop"
    /\ rx' = NoRx
    /\ tx' = Tx("SUBSCRIBED_TO", uid, gid)
    /\ UNCHANGED <<subscriptions, vk, args, queue, processed, node_count, uid, level,
                   followers_info, fid, gid, nodes, run, calls, seedFailed,
                   store1>>

\* the node's expansion is complete: back to the head of the loop
EndExpansion ==
    /\ pc = "gloop"
    /\ groups_info = <<>>
    /\ pc' = "pop"
    /\ rx' = NoRx
    /\ tx' = NoTx
    /\ subscriptions' = <<>>
    /\ UNCHANGED <<vk, args, queue, processed, node_count, uid, level,
                   followers_info, fid, groups_info, gid, store, run, calls, wrote, seedFailed,
                   unmatched, store1>>

\* the script is invoked again, with the same arguments, on the same database
StartRun ==
    /\ pc = "done"
    /\ run < MaxRuns
    /\ run' = run + 1
    /\ store1' = <<nodes, edges>>
    /\ calls' = <<>>
    /\ wrote' = FALSE
    /\ seedFailed' = FALSE
    /\ queue' = <<>>
    /\ processed' = {}
    /\ node_count' = 0
    /\ uid' = 0
    /\ level' = 0
    /\ followers_info' = <<>>
    /\ fid' = 0
    /\ groups_info' = <<>>
    /\ gid' = 0
    /\ pc' = "main"
    /\ rx' = NoRx
    /\ tx' = NoTx
    /\ subscriptions' = <<>>
    /\ UNCHANGED <<vk, args, store, unmatched>>

Next ==
    \/ MainLookupFail
    \/ MainLookupOk
    \/ LoopExit
    \/ PopSkip
    \/ PopStop
    \/ PopExpand
    \/ FetchInfoFail
    \/ FetchInfoOk
    \/ FetchFollowersFail
    \/ FetchFollowersOk
    \/ FollowerSkip
    \/ FollowerStore
    \/ FollowerLink
    \/ FetchSubsFail
    \/ FetchSubsOk
    \/ GroupSkip
    \/ GroupStore
    \/ GroupLink
    \/ EndExpansion
    \/ StartRun

\* The API may answer the same call differently each time.
Init == Start(FALSE)

Spec == Init /\ [][Next]_vars

\* The API is a fixed function of the call.
InitStable == Start(TRUE)

SpecStable == InitStable /\ [][Next]_vars

\* The script is single-threaded and every call it makes returns (with data
\* or with None): the statement it is at is always eventually executed.
FairSpec == Spec /\ WF_vars(Next)

\* ------------------------------------------------------------ properties
IsExpansion(c) == c.op = "info_ok"

\* The nodes expanded in this run, in order: detail fetched and written.
Expansions == SelectSeq(calls, IsExpansion)

ExpandedIds == {Expansions[i].uid : i \in 1..Len(Expansions)}

\* The fetch a call belongs to: detail, followers or subscriptions.
Kind(c) == IF c.op \in {"info_ok", "info_fail"} THEN "info" ELSE c.op

\* C1: in one run no node id is detail-fetched, follower-fetched or
\* subscription-fetched twice, whatever the graph and the failures.
C1_ExpandedAtMostOnce ==
    \A i \in 1..Len(calls), j \in 1..Len(calls) :
        (i # j /\ calls[i].uid = calls[j].uid) => Kind(calls[i]) # Kind(calls[j])

\* An expanded node was popped again, from a second frontier entry, and skipped.
C1_Witness ==
    /\ pc = "pop"
    /\ uid \in ExpandedIds
    /\ \E i \in 1..Len(Expansions) : Expansions[i].uid = uid /\ Expansions[i].level < level

\* C2: every fetch of the run is for a node popped at depth <= max_depth, and
\* while a node popped deeper is the current item nothing is fetched or written.
C2_NoExpansionBeyondDepth ==
    /\ \A i \in 1..Len(calls) : calls[i].level <= max_depth
    /\ level > max_depth => pc \in {"pop", "done"}

\* A too-deep item was popped and skipped; it is in the store as a User node.
C2_Witness ==
    /\ pc = "pop"
    /\ level > max_depth
    /\ uid \notin processed
    /\ Exists(nodes, <<"User", uid>>)
    /\ \A i \in 1..Len(calls) : calls[i].uid # uid

\* C3: the number of expanded nodes never exceeds max_nodes.
C3_BudgetBound == Len(Expansions) <= max_nodes

\* The budget was used up and the hard stop fired.
C3_Witness ==
    /\ pc = "done"
    /\ max_nodes >= 2
    /\ node_count > max_nodes
    /\ Len(Expansions) = max_nodes

C5_Terminates ==
    /\ [](pc = "done" => (queue = <<>> \/ node_count > max_nodes))
    /\ (pc # "done") ~> (pc = "done")

\* A run has ended with the frontier empty: all three users were expanded and
\* the last item popped was a second frontier entry of an expanded node.
C5_Witness ==
    /\ pc = "done"
    /\ queue = <<>>
    /\ Len(Expansions) = MaxId
    /\ \E i \in 1..Len(Expansions) : Expansions[i].uid = uid /\ Expansions[i].level < level

NodeSet(ns) == {k \in Keys : Exists(ns, k)}

\* C6: with a stable API, the nodes and edges after the second run from an
\* empty store are those after the first.
C6_CrawlIdempotent ==
    (run = 2 /\ pc = "done") =>
        (NodeSet(nodes) = NodeSet(store1[1]) /\ edges = store1[2])

\* C7: every write leaves at most one node per label and id, and an upsert
\* of an id the store holds changes that node's attributes and nothing else.
C7_NoDuplicateNodes ==
    [][/\ \A k \in Keys : Len(nodes'[k]) <= 1
       /\ \A k \in Keys : Exists(nodes, k) => Len(nodes'[k]) = Len(nodes[k])
       /\ nodes' # nodes =>
             \E k \in Keys :
                /\ \A j \in Keys \ {k} : nodes'[j] = nodes[j]
                /\ edges' = edges]_vars

\* A node stored by the first run was upserted again by the second, which
\* overwrote its attributes.
C7_Witness ==
    \E k \in Keys :
        /\ run = 2
        /\ store1[1][k] = <<1>>
        /\ nodes[k] = <<2>>

\* C8: every edge has both its endpoints in the store, and every
\* create_relationship call finds both its endpoints already stored.
C8_EdgesHaveEndpoints ==
    /\ \A e \in edges : Exists(nodes, e[1]) /\ Exists(nodes, e[3])
    /\ ~unmatched
    /\ pc = "frel" => Exists(nodes, <<"User", fid>>) /\ Exists(nodes, <<"User", uid>>)
    /\ pc = "grel" => Exists(nodes, <<"Group", gid>>) /\ Exists(nodes, <<"User", uid>>)

\* Between two write transactions: the group is stored, its edge is not yet,
\* and edges written earlier are in the store.
C8_Witness ==
    /\ pc = "grel"
    /\ Exists(nodes, <<"Group", gid>>)
    /\ <<<<"User", uid>>, "SUBSCRIBED_TO", <<"Group", gid>>>> \notin edges
    /\ \E e \in edges : e[2] = "FOLLOWS" /\ e[3] = <<"User", uid>>

\* C9: every FOLLOWS edge goes from a User node to a User node and every
\* SUBSCRIBED_TO edge from a User node to a Group node.
C9_EdgesWellTyped ==
    \A e \in edges :
        /\ e[1][1] = "User"
        /\ e[2] = "FOLLOWS" => e[3][1] = "User"
        /\ e[2] = "SUBSCRIBED_TO" => e[3][1] = "Group"

\* C10: once a detail fetch of the seed has failed, in main or in
\* process_network, the run has written nothing and the store is as the run
\* found it.
C10_SeedFailureWritesNothing ==
    seedFailed => (~wrote /\ <<nodes, edges>> = store1)

\* main's lookup succeeded, process_network's own lookup of the seed failed,
\* and the run ended on a store the first run had filled.
C10_Witness ==
    /\ run = 2
    /\ pc = "done"
    /\ seedFailed
    /\ Len(calls) = 1
    /\ calls[1].op = "info_fail"
    /\ calls[1].uid = user_id
    /\ edges # {}

\* C11: a failed fetch inside process_network (detail, followers, follower
\* details, subscriptions, group details) neither ends the traversal nor
\* touches the frontier, no fetch is made a second time for the same node, and
\* the items left in the frontier are all popped afterwards unless the budget
\* stop fires.
C11_FailedFetchGoesOn ==
    /\ [][(pc # "main" /\ rx'.op # "none" /\ ~rx'.ok)
             => (pc' # "done" /\ queue' = queue)]_vars
    /\ [][(pc # "main" /\ rx'.op # "none")
             => \A i \in 1..Len(calls) :
                    calls[i].uid = rx'.id => Kind(calls[i]) # rx'.op]_vars
    /\ (rx.op # "none" /\ ~rx.ok /\ pc # "done" /\ queue # <<>>)
          ~> (queue = <<>> \/ node_count > max_nodes)

\* The detail fetch of one node failed and a node popped after it was expanded.
C11_Witness ==
    \E i \in 1..Len(calls), j \in 1..Len(calls) :
        /\ i < j
        /\ calls[i].op = "info_fail"
        /\ calls[j].op = "subs"
        /\ calls[j].uid # calls[i].uid

\* The resolved followers a pinned users.getFollowers answer holds for id.
ResolvedFollowers(id) ==
    IF vk.followers[id] = <<>> THEN {}
    ELSE {vk.followers[id][1].items[i] : i \in 1..Len(vk.followers[id][1].items)}

\* The page-typed ids among the fetched subscription items.
PageSubscriptions ==
    {subscriptions[i].id : i \in {j \in 1..Len(subscriptions) : subscriptions[j].type = "page"}}

\* The stable API has answered nothing that contradicts ans.
Consistent(field, id, ans) == vk[field][id] \in {<<>>, <<ans>>}

\* The world of the scenario: 2 and 3 follow 1, nobody follows 2 or 3, only 3
\* subscribes, to one page whose id is no user's; depth 1 and a budget above
\* the number of users.
Scenario ==
    /\ user_id = 1
    /\ max_depth = 1
    /\ max_nodes = MaxNodesArg
    /\ \A u \in 1..3 : Consistent("info", u, TRUE)
    /\ vk.followers[1] = <<[err |-> "none", items |-> <<2, 3>>]>>
    /\ \A u \in 2..3 : Consistent("followers", u, [err |-> "none", items |-> <<>>])
    /\ \A u \in 1..2 : Consistent("subs", u, [err |-> "none", items |-> <<>>])
    /\ Consistent("subs", 3, [err |-> "none",
                              items |-> <<[id |-> MaxId + 1, type |-> "page"]>>])

\* The store the scenario is to end with.
ScenarioStore ==
    /\ NodeSet(nodes) = {<<"User", 1>>, <<"User", 2>>, <<"User", 3>>,
                         <<"Group", MaxId + 1>>}
    /\ edges = {<<<<"User", 2>>, "FOLLOWS", <<"User", 1>>>>,
                <<<<"User", 3>>, "FOLLOWS", <<"User", 1>>>>,
                <<<<"User", 3>>, "SUBSCRIBED_TO", <<"Group", MaxId + 1>>>>}

\* C12 as stated: when the expansion of a node popped at depth max_depth ends,
\* its resolved followers that were not visited are in the store with their
\* FOLLOWS edges and all its resolved page subscriptions are in the store with
\* their SUBSCRIBED_TO edges; and the scenario ends with the stated store.
C12_DeepestNodeFullyExpanded ==
    /\ (pc = "gloop" /\ groups_info = <<>> /\ level = max_depth) =>
            /\ \A f \in ResolvedFollowers(uid) \ processed :
                  /\ Exists(nodes, <<"User", f>>)
                  /\ <<<<"User", f>>, "FOLLOWS", <<"User", uid>>>> \in edges
            /\ \A g \in PageSubscriptions :
                  /\ Exists(nodes, <<"Group", g>>)
                  /\ <<<<"User", uid>>, "SUBSCRIBED_TO", <<"Group", g>>>> \in edges
    /\ (Scenario /\ run = 1 /\ pc = "done") =>
            ScenarioStore

\* C12, amended: an unvisited item popped at depth max_depth within the budget goes to
\* expansion, and when its expansion ends its resolved followers and resolved
\* page subscriptions that were not visited are in the store with their
\* FOLLOWS and SUBSCRIBED_TO edges; in the scenario the run ends with exactly
\* Users 1, 2, 3, the one Group, FOLLOWS 2->1 and 3->1 and SUBSCRIBED_TO 3->Group.
C12_DeepestNodeExpanded ==
    /\ [][(pc = "pop" /\ queue # <<>> /\ Head(queue).level = max_depth
            /\ Head(queue).id \notin processed /\ node_count < max_nodes)
             => (pc' = "info" /\ uid' = Head(queue).id)]_vars
    /\ []((pc = "gloop" /\ groups_info = <<>> /\ level = max_depth) =>
            /\ \A f \in ResolvedFollowers(uid) \ processed :
                  /\ Exists(nodes, <<"User", f>>)
                  /\ <<<<"User", f>>, "FOLLOWS", <<"User", uid>>>> \in edges
            /\ \A g \in PageSubscriptions \ processed :
                  /\ Exists(nodes, <<"Group", g>>)
                  /\ <<<<"User", uid>>, "SUBSCRIBED_TO", <<"Group", g>>>> \in edges)
    /\ []((Scenario /\ run = 1 /\ pc = "done") =>
            ScenarioStore)

\* The scenario's run has ended: 2 and 3 were expanded at depth 1 and every
\* answer of the scenario was given.
C12_Witness ==
    /\ Scenario
    /\ run = 1
    /\ pc = "done"
    /\ \A u \in 1..3 : vk.followers[u] # <<>> /\ vk.subs[u] # <<>>
    /\ Len(Expansions) = 3
    /\ Expansions[3].level = max_depth

\* The ids whose detail fetch failed in this run.
FailedIds == {calls[i].uid : i \in {j \in 1..Len(calls) : calls[j].op = "info_fail"}}

\* C13 as stated: a node whose detail fetch failed is not written in that run
\* (on a store that was empty: it is not in the store) and no follower or
\* subscription fetch is made for it.
C13_FailedNodeNeverWritten ==
    \A u \in FailedIds :
        /\ run = 1 => ~Exists(nodes, <<"User", u>>)
        /\ \A i \in 1..Len(calls) : calls[i].uid = u => calls[i].op = "info_fail"

\* C13, amended: the step whose detail fetch fails writes nothing, from then on
\* the run runs no write that names the failed id and makes no fetch for it;
\* the failed node is in a store that was empty only when it is not the seed,
\* as the User node upserted with its FOLLOWS edge when an expanded node
\* listed it as a follower.
C13_FailedNodeNotWrittenAgain ==
    /\ [][\A i \in 1..Len(calls') :
             calls'[i].op = "info_fail" =>
                 /\ tx'.op \in {"store_user", "store_group"} => tx'.a # calls'[i].uid
                 /\ tx'.op \in {"FOLLOWS", "SUBSCRIBED_TO"} =>
                        (tx'.a # calls'[i].uid /\ tx'.b # calls'[i].uid)
                 /\ rx'.op \in {"followers", "subs"} => rx'.id # calls'[i].uid]_vars
    /\ [][(rx'.op = "info" /\ ~rx'.ok) => (tx' = NoTx /\ store' = store)]_vars
    /\ [](\A u \in FailedIds :
            /\ \A i \in 1..Len(calls) : calls[i].uid = u => calls[i].op = "info_fail"
            /\ (run = 1 /\ Exists(nodes, <<"User", u>>)) =>
                  /\ u # user_id
                  /\ \E p \in ExpandedIds :
                        <<<<"User", u>>, "FOLLOWS", <<"User", p>>>> \in edges)

\* A follower was upserted and linked, then popped, and its detail fetch
\* failed; a node of the same depth popped after it is being expanded and has
\* just upserted a group.
C13_Witness ==
    /\ run = 1
    /\ \E u \in FailedIds :
          /\ u # user_id
          /\ Exists(nodes, <<"User", u>>)
          /\ uid # u
          /\ pc = "grel"
          /\ \E i \in 1..Len(calls) :
                calls[i].uid = u /\ calls[Len(calls)].level = calls[i].level

\* The detail fetches of this run, successful or failed.
Attempts == SelectSeq(calls, LAMBDA c : c.op \in {"info_ok", "info_fail"})

\* C14: the nodes expanded and the nodes whose detail fetch failed are together
\* at most max_nodes, and each of them was counted in node_count.
C14_AttemptsWithinBudget ==
    /\ Len(Attempts) <= max_nodes
    /\ Len(Attempts) <= node_count

\* The budget stop fired after a failed detail fetch and an expansion had
\* used the budget up.
C14_Witness ==
    /\ pc = "done"
    /\ node_count > max_nodes
    /\ Len(Attempts) = max_nodes
    /\ FailedIds # {}
    /\ Len(Expansions) >= 1

\* C15: the budget stop is a hard stop: the step that takes node_count above
\* max_nodes fetches and writes nothing and ends the loop, and from then on
\* the run makes no fetch and no write and leaves the frontier as it is;
\* whereas popping a visited or too deep item only drops that item and the
\* loop goes on.
C15_BudgetStopIsHard ==
    /\ [](node_count > max_nodes => pc = "done")
    /\ [][(node_count' > max_nodes /\ run' = run) =>
             (rx' = NoRx /\ tx' = NoTx /\ store' = store /\ calls' = calls)]_vars
    /\ [][(node_count > max_nodes /\ run' = run) => queue' = queue]_vars
    /\ [][(pc = "pop" /\ queue # <<>>
            /\ (Head(queue).id \in processed \/ Head(queue).level > max_depth)) =>
             (/\ pc' = "pop"
              /\ queue' = Tail(queue)
              /\ node_count' = node_count
              /\ processed' = processed
              /\ rx' = NoRx /\ tx' = NoTx /\ store' = store)]_vars

\* The budget stop fired after an expansion that wrote to the store, and the
\* frontier still holds items.
C15_Witness ==
    /\ pc = "done"
    /\ node_count > max_nodes
    /\ queue # <<>>
    /\ Len(Expansions) >= 1
    /\ uid \notin ExpandedIds
    /\ uid \in processed

\* C16: while the followers of uid are iterated, a follower that is visited is
\* passed over with no write and no frontier entry; a follower f that is not
\* visited gets one store_user(f), which touches no edge and not the frontier,
\* and then one create_relationship(f, uid, FOLLOWS), after which the edge
\* between the two User nodes is there, every edge added is a FOLLOWS edge
\* from id f to id uid, and (f, level + 1) is the last item of the frontier.
C16_FollowerHandling ==
    /\ [][(pc = "floop" /\ followers_info # <<>> /\ Head(followers_info) \in processed) =>
             (/\ tx' = NoTx /\ rx' = NoRx
              /\ store' = store
              /\ queue' = queue
              /\ followers_info' = Tail(followers_info)
              /\ pc' = "floop")]_vars
    /\ [][(pc = "floop" /\ followers_info # <<>> /\ Head(followers_info) \notin processed) =>
             (/\ tx' = Tx("store_user", Head(followers_info), 0)
              /\ Exists(nodes', <<"User", Head(followers_info)>>)
              /\ \A k \in Keys \ {<<"User", Head(followers_info)>>} : nodes'[k] = nodes[k]
              /\ edges' = edges
              /\ queue' = queue
              /\ fid' = Head(followers_info)
              /\ followers_info' = followers_info
              /\ pc' = "frel")]_vars
    /\ [][pc = "frel" =>
             (/\ tx' = Tx("FOLLOWS", fid, uid)
              /\ nodes' = nodes
              /\ <<<<"User", fid>>, "FOLLOWS", <<"User", uid>>>> \in edges'
              /\ edges \subseteq edges'
              /\ \A e \in edges' \ edges :
                    e[2] = "FOLLOWS" /\ e[1][2] = fid /\ e[3][2] = uid
              /\ queue' = Append(queue, [id |-> fid, level |-> level + 1])
              /\ followers_info' = Tail(followers_info)
              /\ pc' = "floop")]_vars

\* An unvisited follower of uid has just been upserted, linked and enqueued,
\* and the next follower listed is a visited node, about to be passed over.
C16_Witness ==
    /\ pc = "floop"
    /\ followers_info # <<>>
    /\ Head(followers_info) \in processed
    /\ fid # 0
    /\ fid \notin processed
    /\ <<<<"User", fid>>, "FOLLOWS", <<"User", uid>>>> \in edges
    /\ queue # <<>>
    /\ queue[Len(queue)] = [id |-> fid, level |-> level + 1]

\* C17: once a group has been upserted and its SUBSCRIBED_TO edge created, the
\* group's id is in the visited set.
C17_GroupMarkedVisited ==
    tx.op = "SUBSCRIBED_TO" => tx.b \in processed

\* C18: a step upserts a Group node or adds a SUBSCRIBED_TO edge only as the
\* store_group(g) or the create_relationship(uid, g, SUBSCRIBED_TO) of the
\* node uid being expanded, for a g that a page-typed item of uid's
\* subscriptions carries and that is not visited; a resolved page whose id is
\* visited is passed over with no write.
C18_OnlyUnvisitedPages ==
    /\ [][\A g \in GroupIds :
             nodes'[<<"Group", g>>] # nodes[<<"Group", g>>] => tx' = Tx("store_group", g, 0)]_vars
    /\ [][\A e \in edges' \ edges :
             e[2] = "SUBSCRIBED_TO" =>
                 (tx' = Tx("SUBSCRIBED_TO", uid, e[3][2]) /\ e[1][2] = uid)]_vars
    /\ [][tx'.op = "store_group" =>
             (/\ pc = "gloop"
              /\ tx'.a \notin processed
              /\ \E i \in 1..Len(subscriptions) :
                    subscriptions[i] = [id |-> tx'.a, type |-> "page"])]_vars
    /\ [][tx'.op = "SUBSCRIBED_TO" =>
             (/\ tx'.a = uid
              /\ tx'.b \notin processed
              /\ Exists(nodes, <<"Group", tx'.b>>)
              /\ \E i \in 1..Len(subscriptions) :
                    subscriptions[i] = [id |-> tx'.b, type |-> "page"])]_vars
    /\ [][(pc = "gloop" /\ groups_info # <<>> /\ Head(groups_info) \in processed) =>
             (tx' = NoTx /\ store' = store /\ groups_info' = Tail(groups_info))]_vars

\* The node being expanded subscribes to a page whose id is a visited user's:
\* the page was resolved and passed over, and no Group node has that id.
C18_Witness ==
    /\ pc = "gloop"
    /\ groups_info = <<>>
    /\ rx = NoRx
    /\ tx = NoTx
    /\ \E i \in 1..Len(subscriptions) :
          /\ subscriptions[i].type = "page"
          /\ subscriptions[i].id \in processed
          /\ subscriptions[i].id # uid
          /\ ~Exists(nodes, <<"Group", subscriptions[i].id>>)
          /\ Exists(nodes, <<"User", subscriptions[i].id>>)

\* get_mutual_followers: the pairs of User nodes with a FOLLOWS edge each way.
get_mutual_followers(es) ==
    {p \in ({"User"} \X Ids) \X ({"User"} \X Ids) :
        <<p[1], "FOLLOWS", p[2]>> \in es /\ <<p[2], "FOLLOWS", p[1]>> \in es}

\* The FOLLOWS edges as pairs of ids.
FollowsPairs(es) == {<<e[1][2], e[3][2]>> : e \in {d \in es : d[2] = "FOLLOWS"}}

\* C19: during and after the first run on an empty store the FOLLOWS edges,
\* as pairs of ids, have no self-loop, no pair in both directions and no
\* cycle of three, and get_mutual_followers returns nothing.
C19_FollowsAcyclic ==
    run = 1 =>
        /\ \A p \in FollowsPairs(edges) : p[1] # p[2] /\ <<p[2], p[1]>> \notin FollowsPairs(edges)
        /\ \A p \in FollowsPairs(edges), q \in FollowsPairs(edges), r \in FollowsPairs(edges) :
              ~(p[2] = q[1] /\ q[2] = r[1] /\ r[2] = p[1])
        /\ get_mutual_followers(edges) = {}

\* The first run has ended; 1 and 2 follow each other in the API, both were
\* expanded, and the store holds the edge 2 -> 1.
C19_Witness ==
    /\ run = 1
    /\ pc = "done"
    /\ 2 \in ResolvedFollowers(1)
    /\ 1 \in ResolvedFollowers(2)
    /\ {1, 2} \subseteq ExpandedIds
    /\ <<<<"User", 2>>, "FOLLOWS", <<"User", 1>>>> \in edges

\* The expanded nodes within n steps of the seed in the follower graph the
\* run has fetched: an edge from each expanded node to each expanded node
\* among its resolved followers.
RECURSIVE Within(_)
Within(n) ==
    IF n = 0 THEN {user_id} \cap ExpandedIds
    ELSE LET near == Within(n - 1)
         IN  near \cup {f \in ExpandedIds : \E q \in near : f \in ResolvedFollowers(q)}

\* C20: every node is expanded at the level that is its distance from the
\* seed in the fetched follower graph of the expanded nodes; of two frontier
\* entries of one id the earlier has the smaller or equal depth, and an entry
\* of an expanded id is not shallower than the expansion was.
C20_LevelIsDistance ==
    /\ \A i \in 1..Len(Expansions) :
          /\ Expansions[i].uid \in Within(Expansions[i].level)
          /\ Expansions[i].level > 0 => Expansions[i].uid \notin Within(Expansions[i].level - 1)
    /\ \A i \in 1..Len(queue), j \in 1..Len(queue) :
          (i < j /\ queue[i].id = queue[j].id) => queue[i].level <= queue[j].level
    /\ \A i \in 1..Len(queue), j \in 1..Len(Expansions) :
          queue[i].id = Expansions[j].uid => Expansions[j].level <= queue[i].level

\* User 3 follows the seed and user 2; it was enqueued at depth 1 and again at
\* depth 2, and was expanded at depth 1 while the deeper entry is still in the
\* frontier.
C20_Witness ==
    /\ Len(Expansions) = 3
    /\ Expansions[3] = [op |-> "info_ok", uid |-> 3, level |-> 1]
    /\ 3 \in ResolvedFollowers(user_id)
    /\ 3 \in ResolvedFollowers(2)
    /\ \E i \in 1..Len(queue) : queue[i] = [id |-> 3, level |-> 2]
====
